---- MODULE Spec2Model ----
(***************************************************************************)
(* A model of lens_shading_analyse.c: one run of main(), from the option   *)
(* loop to the gain tables.  Every action is one step of main(); the pure  *)
(* computations (unpacking, black level correction, stride, block sums,    *)
(* gains) are operators computed the way the C code computes them.         *)
(*                                                                         *)
(* 32-bit unsigned values are kept as pairs <<hi, lo>> of 16-bit limbs     *)
(* wherever the C arithmetic can wrap.                                     *)
(***************************************************************************)
EXTENDS Integers, Sequences, FiniteSets, TLC

(***************************************************************************)
(* Program constants                                                       *)
(***************************************************************************)
NUM_CHANNELS == 4
BRCM_FORMAT_BAYER == 33
BRCM_BAYER_RAW10 == 3
BRCM_BAYER_RAW12 == 4
GridPitch == 32
TwoTo16 == 2 ^ 16

\* enum bayer_order_t, and the 2x2 tile each name spells, row by row
RGGB == 0
GBRG == 1
BGGR == 2
GRBG == 3
BayerTile == << <<"R", "G", "G", "B">>, <<"G", "B", "R", "G">>,
                <<"B", "G", "G", "R">>, <<"G", "R", "B", "G">> >>

MsgOpen == "Failed to open"
MsgFormat == "Invalid output format"
MsgCell == "Analysis cell out of range"
MsgHelp == "usage"
MsgMmap == "mmap failed"
MsgMagic == "Raw file missing BRCM header"
MsgNotBayer == "Raw file is not Bayer raw10 or raw12"

(***************************************************************************)
(* Bounds of the model                                                     *)
(***************************************************************************)
MaxWidth == 6
MaxHeight == 3
MaxPad == 7
MaxCells == 2

Widths == 4..MaxWidth
Heights == 2..MaxHeight
ReqSizes == {0, 1, 3, 32, 33, 258}
OutFrmts == {0, 15}
BlackOpts == {0, 64}
Models == {"imx219", "ov5647", "imx477", "testc", "other"}
Formats == {BRCM_FORMAT_BAYER, 32}
BayerFormats == {BRCM_BAYER_RAW10, BRCM_BAYER_RAW12, 5}
BayerOrders == {RGGB, GBRG, BGGR, GRBG}
Heads == {"jpeg", "brcm", "other"}

\* Packed clusters the scanlines of the input are made of: 5 bytes hold 4
\* 10-bit samples, 6 bytes hold 4 12-bit samples.  The samples are a few
\* counts above 16, the black level of the ov5647.
Clusters10 == { <<4, 4, 4, 4, 0>>, <<4, 4, 4, 4, 135>>, <<4, 4, 4, 4, 170>> }
Clusters12 == { <<1, 1, 0, 1, 1, 0>>, <<1, 1, 33, 1, 1, 19>>,
                <<1, 1, 34, 1, 1, 34>> }
\* plane columns and rows per grid cell, in clusters and in scanlines
GroupsPerCell == GridPitch \div 2
LinesPerBand == 2 * GridPitch

VARIABLES pc, msg, requested, block_size, out_frmt, black_level, in_buf, hdr,
          bits_per_sample, max_val, single_channel_width,
          single_channel_height, grid_width, grid_height, block_px_max,
          stride, out_buf, y, band, line, samples, chan_end, overrun, opened,
          i, block_sum, max_blk_val, gains, consumed

vars == <<pc, msg, requested, block_size, out_frmt, black_level, in_buf, hdr,
          bits_per_sample, max_val, single_channel_width,
          single_channel_height, grid_width, grid_height, block_px_max,
          stride, out_buf, y, band, line, samples, chan_end, overrun, opened,
          i, block_sum, max_blk_val, gains, consumed>>

optVars == <<requested, block_size, out_frmt, black_level>>
layoutVars == <<bits_per_sample, max_val, single_channel_width,
                single_channel_height, grid_width, grid_height, block_px_max,
                stride>>
unpackVars == <<out_buf, y, band, line, samples, chan_end, overrun>>
gridVars == <<opened, i, block_sum, max_blk_val, gains, consumed>>

NoHdr == [format |-> 0, bayer_format |-> 0, bayer_order |-> 0, width |-> 0,
          height |-> 0, padding_right |-> 0]

(***************************************************************************)
(* Arithmetic helpers                                                      *)
(***************************************************************************)
Min(a, b) == IF a < b THEN a ELSE b

\* the uint32_t value of the int n, as 16-bit limbs <<hi, lo>>
U32(n) ==
  IF n >= 0
    THEN <<n \div TwoTo16, n % TwoTo16>>
    ELSE <<(TwoTo16 - 1) - ((-n - 1) \div TwoTo16),
           (TwoTo16 - 1) - ((-n - 1) % TwoTo16)>>

\* u * m modulo 2^32, m below 2^15
MulU32(u, m) ==
  LET lo == u[2] * m
      hi == u[1] * m + (lo \div TwoTo16)
  IN  <<hi % TwoTo16, lo % TwoTo16>>

\* the low 16 bits of u / d, d in 1..32767
DivU32Low16(u, d) == (((u[1] % d) * TwoTo16 + u[2]) \div d) % TwoTo16

\* u / d where the quotient is known to fit 31 bits
DivU32(u, d) == (u[1] \div d) * TwoTo16 + (((u[1] % d) * TwoTo16 + u[2]) \div d)

\* C's  a && b  as an int
LogicalAnd(a, b) == IF a # 0 /\ b # 0 THEN 1 ELSE 0

(***************************************************************************)
(* Tables and pure functions of the program                                *)
(***************************************************************************)
channel_ordering_swapped ==
  << <<0, 1, 2, 3>>, <<1, 0, 3, 2>>, <<3, 2, 1, 0>>, <<2, 3, 0, 1>> >>

\* channel_ordering[bayer_order][i], both indices shifted by one
channel_ordering ==
  << <<0, 1, 2, 3>>, <<2, 3, 0, 1>>, <<3, 2, 1, 0>>, <<1, 0, 3, 2>> >>

\* in_buf = buffer + size - 6404096 / 10270208 / 18711040
TrailingPosition == <<"end-6404096", "end-10270208", "end-18711040">>

\* sensor_model_check: the candidate position of a sensor model, "null" (0)
\* when the model is unknown or the candidate does not hold 'BRCM'.  cand[m] says
\* whether memcmp finds the magic at the candidate of model m (a candidate
\* before the start of a short file is an out-of-bounds read, any result).
sensor_model_check(sensor_model, cand) ==
  IF sensor_model \in 1..3 /\ cand[sensor_model]
    THEN TrailingPosition[sensor_model] ELSE "null"

\* do { in_buf = sensor_model_check(...) } while (in_buf == 0 && sensor_model++ <= 3)
RECURSIVE LocateLoop(_, _)
LocateLoop(sensor_model, cand) ==
  LET r == sensor_model_check(sensor_model, cand)
  IN  IF r = "null" /\ sensor_model <= 3 THEN LocateLoop(sensor_model + 1, cand) ELSE r

DefaultBlackLevel(model) ==
  CASE model = "imx219" -> 64
    [] model = "ov5647" -> 16
    [] model \in {"testc", "imx477"} -> 257
    [] OTHER -> 16

\* ((raw_pixel - black_level) * max_value) / (max_value - black_level) in
\* unsigned int, returned as uint16_t.  The black levels of the model are
\* below max_value (an equal one divides by zero).
black_level_correct(raw_pixel, bl, max_value) ==
  DivU32Low16(MulU32(U32(raw_pixel - bl), max_value), max_value - bl)

\* the 4 raw samples of a 5-byte cluster: byte << 2 plus two bits of byte 5
Unpack10(c) ==
  LET l0 == c[5]
      l1 == (l0 * 4) % 256
      l2 == (l1 * 4) % 256
      l3 == (l2 * 4) % 256
  IN  << c[1] * 4 + (l0 \div 64), c[2] * 4 + (l1 \div 64),
         c[3] * 4 + (l2 \div 64), c[4] * 4 + (l3 \div 64) >>

\* the 4 raw samples of a 6-byte cluster
Unpack12(c) ==
  << c[1] * 16 + (c[3] \div 16), c[2] * 16 + (c[3] % 16),
     c[4] * 16 + (c[6] \div 16), c[5] * 16 + LogicalAnd(c[6], 15) >>

StrideNoRound(width, padding_right, bits) ==
  IF bits = 10 THEN ((width + padding_right) * 5 + 3) \div 4
  ELSE ((width + padding_right) * 6 + 3) \div 4

\* (((((width + padding_right)*5)+3)>>2) + 31)&(~31), 6 for 5 when not 10 bit
Stride(width, padding_right, bits) ==
  LET q == IF bits = 10 THEN ((width + padding_right) * 5 + 3) \div 4
           ELSE ((width + padding_right) * 6 + 3) \div 4
  IN  ((q + 31) \div 32) * 32

(***************************************************************************)
(* Grid aggregation and gain derivation (the body of the channel loop)     *)
(***************************************************************************)
Bit(v, b) == (v \div b) % 2 = 1

RECURSIVE SumOver(_, _)
SumOver(f, S) ==
  IF S = {} THEN 0
  ELSE LET k == CHOOSE k \in S : TRUE IN f[k] + SumOver(f, S \ {k})

\* x_start / y_start of the sampling window of grid column or row c
WinStart(c, bs, size) ==
  LET s == c * GridPitch + 16 - (bs \div 2)
  IN  IF s >= size THEN size - 1 ELSE s

\* x_stop / y_stop
WinStop(start, bs, size) == Min(start + bs, size)

\* indices of the plane elements summed for the grid cell (x, y) = (cx, cy)
Window(cx, cy, bs, scw, sch) ==
  LET x_start == WinStart(cx, bs, scw)
      y_start == WinStart(cy, bs, sch)
  IN  { y_px * scw + x_px :
          y_px \in y_start..(WinStop(y_start, bs, sch) - 1),
          x_px \in x_start..(WinStop(x_start, bs, scw) - 1) }

\* block_val of the cell (cx, cy): the sum of the window, rescaled by
\* block_px_max / block_px in uint32_t when the window was clipped.  The sum
\* itself cannot wrap (at most 1024 elements of 16 bits).
BlockVal(channel, cx, cy, bs, bpm, scw, sch) ==
  LET W        == Window(cx, cy, bs, scw, sch)
      block_px == Cardinality(W)
      sum      == SumOver(channel, W)
  IN  IF block_px < bpm THEN DivU32(MulU32(U32(sum), bpm), block_px) ELSE sum

\* block_sum[block_idx++] = block_val ? block_val : 1
ClampBlock(block_val) == IF block_val # 0 THEN block_val ELSE 1

MaxOf(S) == IF S = {} THEN 0 ELSE CHOOSE m \in S : \A v \in S : v <= m

ClipGainNoUpper(gain) == IF gain < 32 THEN 32 ELSE gain

ClipGainNoLower(gain) == IF gain > 255 THEN 255 ELSE gain

\* if (gain > 255) gain = 255; else if (gain < 32) gain = 32;
ClipGain(gain) == IF gain > 255 THEN 255 ELSE IF gain < 32 THEN 32 ELSE gain

\* int gain = max_blk_val / block_sum[block_idx++] + 0.5, then clipped: the
\* division is the integer division of two uint32_t, so adding 0.5 and
\* converting to int gives the integer quotient back
Gain(ref, cell) == ClipGain(ref \div cell)

\* the cell whose block value is stored last at block_sum[k] (block_idx is a
\* uint16_t, it wraps after 65536 cells)
LastCell(k, n) == k + ((n - 1 - k) \div TwoTo16) * TwoTo16

(***************************************************************************)
(* Initial state: main() entered, defaults of the locals                   *)
(***************************************************************************)
Init ==
  /\ pc = "getopt"
  /\ msg = ""
  /\ requested = -1
  /\ block_size = 4
  /\ out_frmt = 1
  /\ black_level = 0
  /\ in_buf = "null"
  /\ hdr = NoHdr
  /\ bits_per_sample = 0
  /\ max_val = 0
  /\ single_channel_width = 0
  /\ single_channel_height = 0
  /\ grid_width = 0
  /\ grid_height = 0
  /\ block_px_max = 0
  /\ stride = 0
  /\ out_buf = <<>>
  /\ y = 0
  /\ band = <<>>
  /\ line = <<>>
  /\ samples = <<>>
  /\ chan_end = 0
  /\ overrun = FALSE
  /\ opened = {}
  /\ i = 0
  /\ block_sum = <<>>
  /\ max_blk_val = 0
  /\ gains = <<>>
  /\ consumed = <<>>

(***************************************************************************)
(* The option loop                                                         *)
(***************************************************************************)
\* argc < 2, -h or an unknown option: print_help(), return -1
Usage ==
  /\ pc = "getopt"
  /\ msg' = MsgHelp
  /\ pc' = "exit"
  /\ UNCHANGED <<optVars, in_buf, hdr, layoutVars, unpackVars, gridVars>>

\* case 'b'
OptB ==
  /\ pc = "getopt"
  /\ \E v \in BlackOpts : black_level' = v
  /\ UNCHANGED <<pc, msg, requested, block_size, out_frmt, in_buf, hdr,
                 layoutVars, unpackVars, gridVars>>

\* case 'i'
OptI ==
  /\ pc = "getopt"
  /\ \E ok \in BOOLEAN :
       IF ok THEN UNCHANGED <<pc, msg>>
       ELSE msg' = MsgOpen /\ pc' = "exit"
  /\ UNCHANGED <<optVars, in_buf, hdr, layoutVars, unpackVars, gridVars>>

\* case 'o': out_frmt is a uint8_t, and (!out_frmt & 0x0F) is true exactly
\* when it is 0
OptO ==
  /\ pc = "getopt"
  /\ \E v \in OutFrmts :
       /\ out_frmt' = v % 256
       /\ IF v % 256 = 0
            THEN msg' = MsgFormat /\ pc' = "exit"
            ELSE UNCHANGED <<pc, msg>>
  /\ UNCHANGED <<requested, block_size, black_level, in_buf, hdr, layoutVars,
                 unpackVars, gridVars>>

OptSNoRound ==
  /\ pc = "getopt"
  /\ \E v \in ReqSizes :
       /\ requested' = v
       /\ block_size' = v % 256
       /\ IF v % 256 <= 0 \/ v % 256 > 32
            THEN msg' = MsgCell /\ pc' = "exit"
            ELSE UNCHANGED <<pc, msg>>
  /\ UNCHANGED <<out_frmt, black_level, in_buf, hdr, layoutVars, unpackVars,
                 gridVars>>

\* case 's': block_size is a uint8_t
OptS ==
  /\ pc = "getopt"
  /\ \E v \in ReqSizes :
       LET b == v % 256 IN
       /\ requested' = v
       /\ IF b <= 0 \/ b > 32
            THEN /\ block_size' = b
                 /\ msg' = MsgCell
                 /\ pc' = "exit"
            ELSE /\ block_size' = IF b % 2 = 1 THEN b + 1 ELSE b
                 /\ UNCHANGED <<pc, msg>>
  /\ UNCHANGED <<out_frmt, black_level, in_buf, hdr, layoutVars, unpackVars,
                 gridVars>>

\* getopt returns -1
EndOptions ==
  /\ pc = "getopt"
  /\ pc' = "mmap"
  /\ UNCHANGED <<msg, optVars, in_buf, hdr, layoutVars, unpackVars, gridVars>>

(***************************************************************************)
(* Container locator and header parser                                     *)
(***************************************************************************)
\* fstat, mmap
Mmap ==
  /\ pc = "mmap"
  /\ \E ok \in BOOLEAN :
       IF ok THEN pc' = "locate" /\ UNCHANGED msg
       ELSE msg' = MsgMmap /\ pc' = "exit"
  /\ UNCHANGED <<optVars, in_buf, hdr, layoutVars, unpackVars, gridVars>>

\* The JPEG test, the search of the trailing candidates and the check of
\* the magic.  head is what the mapped file starts with.  A JPEG shorter
\* than a trailing offset makes sensor_model_check read before the mapping:
\* the read faults, or gives some result (cand).
Locate ==
  /\ pc = "locate"
  /\ \E head \in Heads, cand \in [1..3 -> BOOLEAN] :
       LET found == IF head = "jpeg" THEN LocateLoop(1, cand) ELSE "null"
           buf   == IF found = "null" THEN "mmap_buf" ELSE found
           magic == buf # "mmap_buf" \/ head = "brcm"
       IN  \E fault \in (IF head = "jpeg" THEN BOOLEAN ELSE {FALSE}) :
             IF fault THEN pc' = "crashed" /\ UNCHANGED <<msg, in_buf>>
             ELSE /\ in_buf' = buf
                  /\ IF magic THEN pc' = "sensor" /\ UNCHANGED msg
                     ELSE msg' = MsgMagic /\ pc' = "exit"
  /\ UNCHANGED <<optVars, hdr, layoutVars, unpackVars, gridVars>>

\* the sensor name at in_buf[16] sets the black level when -b gave none
SensorModel ==
  /\ pc = "sensor"
  /\ \E model \in Models :
       black_level' = IF black_level = 0 THEN DefaultBlackLevel(model)
                      ELSE black_level
  /\ pc' = "header"
  /\ UNCHANGED <<msg, requested, block_size, out_frmt, in_buf, hdr,
                 layoutVars, unpackVars, gridVars>>

FormatSupported(h) ==
  ~ (h.format # BRCM_FORMAT_BAYER
       \/ (h.bayer_format # BRCM_BAYER_RAW10 /\ h.bayer_format # BRCM_BAYER_RAW12))

ParseHeaderNoAbort ==
  /\ pc = "header"
  /\ \E f \in Formats, bf \in BayerFormats, bo \in BayerOrders,
        w \in Widths, h \in Heights :
       LET new == [format |-> f, bayer_format |-> bf, bayer_order |-> bo,
                   width |-> w, height |-> h, padding_right |-> 0]
       IN  /\ hdr' = new
           /\ msg' = IF FormatSupported(new) THEN msg ELSE MsgNotBayer
           /\ pc' = "layout"
  /\ UNCHANGED <<optVars, in_buf, layoutVars, unpackVars, gridVars>>

\* hdr = in_buf + 0xB0 and the check of its format and bayer_format
ParseHeader ==
  /\ pc = "header"
  /\ \E f \in Formats, bf \in BayerFormats, bo \in BayerOrders,
        w \in Widths, h \in Heights :
       LET new == [format |-> f, bayer_format |-> bf, bayer_order |-> bo,
                   width |-> w, height |-> h, padding_right |-> 0]
       IN  /\ hdr' = new
           /\ IF FormatSupported(new) THEN pc' = "layout" /\ UNCHANGED msg
              ELSE msg' = MsgNotBayer /\ pc' = "exit"
  /\ UNCHANGED <<optVars, in_buf, layoutVars, unpackVars, gridVars>>

(***************************************************************************)
(* Bayer unpacker                                                          *)
(***************************************************************************)
\* bits_per_sample, max_val, the plane and grid sizes, block_sum, the
\* stride, and the four zeroed planes.  block_sum is malloc'ed and not
\* initialised; every element is written before it is read.
Layout ==
  /\ pc = "layout"
  /\ LET bits == hdr.bayer_format * 2 + 4
         scw  == hdr.width \div 2
         sch  == hdr.height \div 2
         gw   == (scw + 31) \div 32
         gh   == (sch + 31) \div 32
     IN  /\ bits_per_sample' = bits
         /\ max_val' = (2 ^ bits - 1) % TwoTo16
         /\ single_channel_width' = scw
         /\ single_channel_height' = sch
         /\ grid_width' = gw
         /\ grid_height' = gh
         /\ block_px_max' = block_size * block_size
         /\ block_sum' = [k \in 0..(gw * gh - 1) |-> 0]
         /\ stride' = Stride(hdr.width, hdr.padding_right, bits)
         /\ out_buf' = [p \in 1..NUM_CHANNELS |-> [k \in 0..(scw * sch - 1) |-> 0]]
  /\ y' = 0
  /\ pc' = IF hdr.height > 0 THEN "unpack" ELSE "open"
  /\ UNCHANGED <<msg, optVars, in_buf, hdr, band, line, samples, chan_end,
                 overrun, opened, i, max_blk_val, gains, consumed>>

Clusters == IF bits_per_sample = 10 THEN Clusters10 ELSE Clusters12

Unpack(c) == IF bits_per_sample = 10 THEN Unpack10(c) ELSE Unpack12(c)

\* the cluster of group g of a scanline: b gives one cluster per grid column
ClusterAt(b, g) == b[Min(g \div GroupsPerCell, Len(b) - 1) + 1]

\* the bytes of the first groups clusters of a scanline, from group g on
RECURSIVE LineBytes(_, _, _)
LineBytes(b, g, groups) ==
  IF g >= groups THEN <<>>
  ELSE ClusterAt(b, g) \o LineBytes(b, g + 1, groups)

\* the raw samples the loop over x unpacks from them, 4 per cluster
RECURSIVE LineSamples(_, _, _)
LineSamples(b, g, groups) ==
  IF g >= groups THEN <<>>
  ELSE Unpack(ClusterAt(b, g)) \o LineSamples(b, g + 1, groups)

\* One iteration of the loop over y.  The scanline y is read at in_buf +
\* y * stride + 32768; the input holds one cluster per grid cell, repeated over
\* the 64 scanlines and the 16 groups of the cell, and band is the clusters
\* of the band of scanlines being read.  The samples go alternately to chan_a
\* and chan_b, from element (y >> 1) * single_channel_width on, 2 to each
\* plane per cluster, for x = 0, 4, 8, ... below width.  A write past the end
\* of a plane is a heap overflow: the element is not part of the plane, and
\* the run either faults or goes on.  The file is taken to be long enough
\* for the scanlines the header announces.
UnpackLine ==
  /\ pc = "unpack"
  /\ y < hdr.height
  /\ \E b \in (IF y % LinesPerBand = 0
                 THEN [1..grid_width -> Clusters] ELSE {band}) :
       LET groups  == (hdr.width + 3) \div 4
           raw     == LineSamples(b, 0, groups)
           chan_a  == IF y % 2 = 1 THEN 2 ELSE 0
           chan_b  == chan_a + 1
           base    == (y \div 2) * single_channel_width
           n       == single_channel_width * single_channel_height
           end     == base + 2 * groups
           over    == groups > 0 /\ end > n
           fill(plane, first) ==
             [k \in 0..(n - 1) |->
                IF base <= k /\ k < end
                  THEN black_level_correct(raw[2 * (k - base) + first],
                                           black_level, max_val)
                  ELSE plane[k]]
       IN  /\ band' = b
           /\ line' = LineBytes(b, 0, groups)
           /\ samples' = raw
           /\ out_buf' = [p \in 1..NUM_CHANNELS |->
                            IF p = chan_a + 1 THEN fill(out_buf[p], 1)
                            ELSE IF p = chan_b + 1 THEN fill(out_buf[p], 2)
                            ELSE out_buf[p]]
           /\ chan_end' = end
           /\ overrun' = (overrun \/ over)
           /\ \E fault \in (IF over THEN BOOLEAN ELSE {FALSE}) :
                pc' = IF fault THEN "crashed"
                      ELSE IF y + 1 < hdr.height THEN "unpack" ELSE "open"
  /\ y' = y + 1
  /\ UNCHANGED <<msg, optVars, in_buf, hdr, layoutVars, gridVars>>

(***************************************************************************)
(* Output, grid aggregator and gain deriver                                *)
(***************************************************************************)
\* fopen of the artifacts out_frmt asks for, and their preambles
OpenOutputs ==
  /\ pc = "open"
  /\ opened' = opened
                 \cup (IF Bit(out_frmt, 1) THEN {"ls_table.h"} ELSE {})
                 \cup (IF Bit(out_frmt, 2) THEN {"ls.bin"} ELSE {})
                 \cup (IF Bit(out_frmt, 4) THEN {"ls_table.txt"} ELSE {})
  /\ i' = 0
  /\ pc' = "channel"
  /\ UNCHANGED <<msg, optVars, in_buf, hdr, layoutVars, unpackVars, block_sum,
                 max_blk_val, gains, consumed>>

ChannelFile == <<"ch1.bin", "ch2.bin", "ch3.bin", "ch4.bin">>

\* One iteration of the loop over i: the plane channel_ordering[bayer_order][i]
\* is summed block by block into block_sum, its largest block value is
\* shifted left by 5, and one gain per block is emitted.
ProcessChannel ==
  /\ pc = "channel"
  /\ i < NUM_CHANNELS
  /\ LET plane   == channel_ordering[hdr.bayer_order + 1][i + 1]
         channel == out_buf[plane + 1]
         n       == grid_width * grid_height
         val     == [j \in 0..(n - 1) |->
                       BlockVal(channel, j % grid_width, j \div grid_width,
                                block_size, block_px_max,
                                single_channel_width, single_channel_height)]
         sums    == [k \in DOMAIN block_sum |->
                       IF k < n THEN ClampBlock(val[LastCell(k, n)])
                       ELSE block_sum[k]]
         ref     == MaxOf({val[j] : j \in 0..(n - 1)}) * 32
     IN  /\ block_sum' = sums
         /\ max_blk_val' = ref
         /\ gains' = Append(gains, [j \in 1..n |-> Gain(ref, sums[(j - 1) % TwoTo16])])
         /\ consumed' = Append(consumed, plane)
  /\ opened' = opened \cup (IF Bit(out_frmt, 8) THEN {ChannelFile[i + 1]} ELSE {})
  /\ i' = i + 1
  /\ pc' = IF i + 1 < NUM_CHANNELS THEN "channel" ELSE "finish"
  /\ UNCHANGED <<msg, optVars, in_buf, hdr, layoutVars, unpackVars>>

\* the trailer of the header file, free, munmap, close, return 0
Finish ==
  /\ pc = "finish"
  /\ pc' = "exit"
  /\ UNCHANGED <<msg, optVars, in_buf, hdr, layoutVars, unpackVars, gridVars>>

Next ==
  \/ Usage
  \/ OptB
  \/ OptI
  \/ OptO
  \/ OptS
  \/ EndOptions
  \/ Mmap
  \/ Locate
  \/ SensorModel
  \/ ParseHeader
  \/ Layout
  \/ UnpackLine
  \/ OpenOutputs
  \/ ProcessChannel
  \/ Finish

Spec == Init /\ [][Next]_vars

(***************************************************************************)
(* SpecGrid: runs over inputs wide or high enough for a grid of two cells, *)
(* from the point where the header has been accepted.                      *)
(***************************************************************************)
\* a row and a column of MaxCells grid cells: 64 image pixels per cell, the
\* last cell 4 pixels wide or high
GridDims == { <<4 + 2 * GridPitch * (MaxCells - 1), 2>>,
              <<4, 4 + 2 * GridPitch * (MaxCells - 1)>> }
GridSizes == { <<-1, 4>>, <<1, 2>>, <<32, 32>> }
GridBlackLevels == {16, 64}
GridOrders == {RGGB, GRBG}

AtLayout(h, size, bl) ==
  /\ pc = "layout"
  /\ msg = ""
  /\ requested = size[1]
  /\ block_size = size[2]
  /\ out_frmt = 1
  /\ black_level = bl
  /\ in_buf = "mmap_buf"
  /\ hdr = h
  /\ bits_per_sample = 0
  /\ max_val = 0
  /\ single_channel_width = 0
  /\ single_channel_height = 0
  /\ grid_width = 0
  /\ grid_height = 0
  /\ block_px_max = 0
  /\ stride = 0
  /\ out_buf = <<>>
  /\ y = 0
  /\ band = <<>>
  /\ line = <<>>
  /\ samples = <<>>
  /\ chan_end = 0
  /\ overrun = FALSE
  /\ opened = {}
  /\ i = 0
  /\ block_sum = <<>>
  /\ max_blk_val = 0
  /\ gains = <<>>
  /\ consumed = <<>>

InitGrid ==
  \E d \in GridDims, bf \in {BRCM_BAYER_RAW10, BRCM_BAYER_RAW12},
     bo \in GridOrders, size \in GridSizes, bl \in GridBlackLevels :
    AtLayout([format |-> BRCM_FORMAT_BAYER, bayer_format |-> bf,
              bayer_order |-> bo, width |-> d[1], height |-> d[2],
              padding_right |-> 0], size, bl)

NextGrid ==
  \/ Layout
  \/ UnpackLine
  \/ OpenOutputs
  \/ ProcessChannel
  \/ Finish

SpecGrid == InitGrid /\ [][NextGrid]_vars

(***************************************************************************)
(* SpecStride: the layout step over the widths of the supported sensors    *)
(***************************************************************************)
StrideWidths == {3280, 2592, 4056, 1640, 1296}

InitStride ==
  \E w \in StrideWidths, pad \in 0..MaxPad,
     bf \in {BRCM_BAYER_RAW10, BRCM_BAYER_RAW12} :
    AtLayout([format |-> BRCM_FORMAT_BAYER, bayer_format |-> bf,
              bayer_order |-> RGGB, width |-> w, height |-> 2,
              padding_right |-> pad], <<-1, 4>>, 16)

NextStride == Layout

SpecStride == InitStride /\ [][NextStride]_vars

(***************************************************************************)
(* Properties                                                              *)
(***************************************************************************)
Planes == 1..NUM_CHANNELS
Unpacked == out_buf # <<>> /\ pc \in {"open", "channel", "finish", "exit"}
Cells == 0..(grid_width * grid_height - 1)
\* the gains of the channel processed last, whose sums block_sum holds
LastGains == gains[Len(gains)]

\* C1: every gain emitted is an integer in 32..255, and a cell whose block
\* value is the largest of its channel gets gain 32 (within 1).
C1_GainRange ==
  /\ \A c \in 1..Len(gains) : \A j \in DOMAIN gains[c] : gains[c][j] \in 32..255
  /\ Len(gains) > 0 =>
       LET m == max_blk_val \div 32
       IN  \A j \in Cells :
             block_sum[j] = (IF m = 0 THEN 1 ELSE m) => LastGains[j + 1] \in 31..33

C1_Witness ==
  /\ pc = "exit"
  /\ Len(gains) = NUM_CHANNELS
  /\ max_blk_val > 0
  /\ \E j, k \in Cells :
       /\ block_sum[j] = max_blk_val \div 32
       /\ LastGains[j + 1] = 32
       /\ LastGains[k + 1] \in 33..254
  /\ \E c \in 1..Len(gains) : \E j \in DOMAIN gains[c] : gains[c][j] = 255

\* C2: a run that ends with the missing-magic or the unsupported-format
\* diagnostic has allocated and unpacked no plane, opened no output file and
\* emitted no gain.
C2_NoPartialOutput ==
  (pc = "exit" /\ msg \in {MsgMagic, MsgNotBayer}) =>
    /\ out_buf = <<>>
    /\ y = 0
    /\ opened = {}
    /\ gains = <<>>

C2_Witness ==
  /\ pc = "exit"
  /\ msg = MsgNotBayer
  /\ in_buf = "end-10270208"
  /\ hdr.format = BRCM_FORMAT_BAYER
  /\ hdr.bayer_format = 5
  /\ opened = {}

\* C3 as claimed: every element of a channel plane is in 0..max_val after
\* black level correction, raw samples below the black level included.
C3_CorrectedInRange ==
  out_buf # <<>> =>
    \A p \in Planes : \A k \in DOMAIN out_buf[p] : out_buf[p][k] \in 0..max_val

\* the logical colour held by physical plane p (2 * row parity + column
\* parity) under bayer order bo; a green is named after the other colour of
\* its row
PlaneColour(bo, p) ==
  LET tile == BayerTile[bo + 1]
      mate == tile[(IF p % 2 = 0 THEN p + 1 ELSE p - 1) + 1]
  IN  IF tile[p + 1] # "G" THEN tile[p + 1]
      ELSE IF mate = "R" THEN "Gr" ELSE "Gb"

LogicalOrder == <<"R", "Gr", "Gb", "B">>

\* C4: the k-th channel processed reads the physical plane that holds the
\* k-th colour of R, Gr, Gb, B under the header's bayer order, and a
\* complete run reads each of the four planes exactly once.
C4_LogicalOrder ==
  /\ \A k \in 1..Len(consumed) :
       PlaneColour(hdr.bayer_order, consumed[k]) = LogicalOrder[k]
  /\ Len(consumed) = NUM_CHANNELS =>
       \A p \in 0..3 : Cardinality({k \in 1..NUM_CHANNELS : consumed[k] = p}) = 1

C4_Witness ==
  /\ pc = "exit"
  /\ hdr.bayer_order = GBRG
  /\ consumed = <<2, 3, 0, 1>>
  /\ Len(gains) = NUM_CHANNELS

Rejected == pc = "exit" /\ msg = MsgCell

\* C5 as claimed: whatever size -s requests, the run is not rejected for
\* it, and the size used is even and in 2..32 (3 becomes 4).
C5_Clamped ==
  requested # -1 =>
    /\ ~ Rejected
    /\ block_size \in 2..32
    /\ block_size % 2 = 0
    /\ requested = 3 => block_size = 4

\* C5 amended: a request whose 8-bit value is in 1..32 is used rounded up to
\* the next even number (1 becomes 2, 3 becomes 4) and the run is not
\* rejected for it; a request whose 8-bit value is 0 or above 32 ends the
\* run with "Analysis cell out of range" before anything is processed.  The
\* size the aggregator works with is always even and in 2..32.
C5_RoundedOrRejected ==
  /\ requested # -1 =>
       LET b == requested % 256
       IN  IF b \in 1..32
             THEN /\ ~ Rejected
                  /\ block_size = (IF b % 2 = 1 THEN b + 1 ELSE b)
             ELSE /\ Rejected
                  /\ out_buf = <<>> /\ opened = {} /\ gains = <<>>
  /\ pc \in {"unpack", "open", "channel", "finish"} =>
       /\ block_size \in 2..32
       /\ block_size % 2 = 0
       /\ block_px_max = block_size * block_size

C5_Witness ==
  /\ requested = 3
  /\ block_size = 4
  /\ block_px_max = 16
  /\ pc = "exit"
  /\ Len(gains) = NUM_CHANNELS

AllZero == Unpacked /\ \A p \in Planes : \A k \in DOMAIN out_buf[p] : out_buf[p][k] = 0

\* C6 as claimed: with all planes zero every stored block value is 1 and
\* every gain is 255.
C6_AllZero255 ==
  (AllZero /\ Len(gains) > 0) =>
    /\ \A j \in Cells : block_sum[j] = 1
    /\ \A c \in 1..Len(gains) : \A j \in DOMAIN gains[c] : gains[c][j] = 255

\* C6 amended: with all planes zero every stored block value is 1 and every
\* gain is 32 (the reference level is 0, and the quotient 0 is clipped up).
C6_AllZero32 ==
  (AllZero /\ Len(gains) > 0) =>
    /\ \A j \in Cells : block_sum[j] = 1
    /\ max_blk_val = 0
    /\ \A c \in 1..Len(gains) : \A j \in DOMAIN gains[c] : gains[c][j] = 32

C6_Witness ==
  /\ AllZero
  /\ pc = "exit"
  /\ Len(gains) = NUM_CHANNELS
  /\ grid_width * grid_height >= 2
  /\ \A j \in Cells : block_sum[j] = 1

\* C7 as claimed: 10 bit, width 3280, no padding: the stride is 4100.
C7_Stride4100 ==
  (pc # "layout" /\ bits_per_sample = 10 /\ hdr.width = 3280
     /\ hdr.padding_right = 0) => stride = 4100

\* C7 amended: the stride is the least multiple of 32 that is at least
\* ((width + padding_right) * 5 + 3) >> 2 (6 for 5 in 12-bit mode); for 10
\* bit, width 3280 and no padding it is 4128.
C7_StrideRounded ==
  pc # "layout" =>
    LET q == ((hdr.width + hdr.padding_right)
                * (IF bits_per_sample = 10 THEN 5 ELSE 6) + 3) \div 4
    IN  /\ stride % 32 = 0
        /\ stride >= q
        /\ stride < q + 32
        /\ (bits_per_sample = 10 /\ hdr.width = 3280 /\ hdr.padding_right = 0)
             => stride = 4128

C7_Witness ==
  /\ pc # "layout"
  /\ bits_per_sample = 10
  /\ hdr.width = 3280
  /\ hdr.padding_right = 0
  /\ stride = 4128

\* the exact quotient a / b rounded to the nearest integer
RoundDiv(a, b) == (a \div b) + (IF 2 * (a % b) >= b THEN 1 ELSE 0)

\* C8 as claimed: every gain is the reference level divided by the cell
\* value, rounded to the nearest integer, clipped to 32..255.
C8_RoundedGain ==
  Len(gains) > 0 =>
    \A j \in Cells :
      LET g == RoundDiv(max_blk_val, block_sum[j])
      IN  LastGains[j + 1] = (IF g > 255 THEN 255 ELSE IF g < 32 THEN 32 ELSE g)

\* C9 as claimed: in 12-bit mode the 4 samples of every 6-byte cluster are
\* (byte << 4) | nibble, the nibble being the high half of the shared byte
\* for the first sample of a pair and its low half for the second.
C9_MaskedNibbles ==
  (bits_per_sample = 12 /\ samples # <<>>) =>
    \A g \in 0..((Len(line) \div 6) - 1) :
      LET b(k) == line[6 * g + k]
          s(k) == samples[4 * g + k]
      IN  /\ s(1) = b(1) * 16 + (b(3) \div 16)
          /\ s(2) = b(2) * 16 + (b(3) % 16)
          /\ s(3) = b(4) * 16 + (b(6) \div 16)
          /\ s(4) = b(5) * 16 + (b(6) % 16)

\* C10 as claimed: every scanline writes exactly single_channel_width
\* samples to each of its two planes, and no write passes the end of the
\* plane.
C10_WritesInPlane ==
  (out_buf # <<>> /\ y > 0) =>
    /\ chan_end - ((y - 1) \div 2) * single_channel_width = single_channel_width
    /\ chan_end <= single_channel_width * single_channel_height
    /\ ~ overrun

====
